---- MODULE Spec2Model ----
(***************************************************************************)
(* Macro expansion of dep_doc!, dev_dep_doc! and package_import!           *)
(* (src/src/lib.rs).  An invocation is a sequence of token trees; each     *)
(* action is one macro expansion performed by the compiler: the selection  *)
(* of a macro_rules arm and the transcription of its right-hand side, or   *)
(* the evaluation of the builtin concat!.                                  *)
(*                                                                         *)
(* Text is modelled by TLA+ strings.  A TLA+ string cannot hold the        *)
(* character U+0060 (grave accent), so the three grave accents of the      *)
(* Markdown fence are written "~~~" throughout; no token of the model      *)
(* holds a "~".                                                            *)
(***************************************************************************)
EXTENDS Integers, Sequences, FiniteSets, TLC

VARIABLES env, macro, args, run, prev, pc, pending, wrap, cargs, arms,
          spliced, import, output

vars == <<env, macro, args, run, prev, pc, pending, wrap, cargs, arms,
          spliced, import, output>>

(***************************************************************************)
(* Token trees.  k is the kind, s the text of a leaf (for a string literal *)
(* its value, without the quotes) or the opening delimiter of a group, b   *)
(* the token trees inside a group.                                         *)
(***************************************************************************)
Id(s) == [k |-> "ident", s |-> s, b |-> <<>>]

P(s) == [k |-> "punct", s |-> s, b |-> <<>>]

Lit(s) == [k |-> "lit", s |-> s, b |-> <<>>]

Br(b) == [k |-> "group", s |-> "[", b |-> b]

Par(b) == [k |-> "group", s |-> "(", b |-> b]

IsPunct(t, s) == t.k = "punct" /\ t.s = s

IsBracket(t) == t.k = "group" /\ t.s = "["

(***************************************************************************)
(* Helpers.  With(e, F) is F(e) with e evaluated once.                     *)
(***************************************************************************)
With(e, F(_)) == CHOOSE r \in {F(x) : x \in {e}} : TRUE

Contains(text, pat) ==
    \E i \in 1..(Len(text) - Len(pat) + 1) : SubSeq(text, i, i + Len(pat) - 1) = pat

StartsWith(text, pat) ==
    Len(pat) <= Len(text) /\ SubSeq(text, 1, Len(pat)) = pat

(***************************************************************************)
(* stringify!( $( $rest )* ): the source text of the tokens.  The tokens   *)
(* are printed in order, separated by one space, with no space before a    *)
(* comma and none inside the delimiters of a group, which is the format    *)
(* the tests with_git_path and with_feature pin down.                      *)
(***************************************************************************)
RECURSIVE Stringify(_)
TokenText(t) ==
    IF t.k = "lit" THEN "\"" \o t.s \o "\""
    ELSE IF t.k = "group"
         THEN t.s \o Stringify(t.b) \o (IF t.s = "[" THEN "]" ELSE ")")
         ELSE t.s

Stringify(ts) ==
    IF ts = <<>> THEN ""
    ELSE IF Len(ts) = 1 THEN TokenText(ts[1])
    ELSE TokenText(ts[1])
         \o (IF IsPunct(ts[2], ",") THEN "" ELSE " ")
         \o Stringify(Tail(ts))

(***************************************************************************)
(* The fragment specifier $x:expr.  CanBeginExpr is the matcher's test     *)
(* before it commits to the expression parser; ParseExpr(s, i) is the      *)
(* position after the longest expression of s that starts at i, or 0 when  *)
(* the tokens there are not an expression (a syntax error, which aborts    *)
(* the expansion: the matcher does not go back to try the next arm).       *)
(* The grammar is Rust's, over the token kinds of this model: literals,    *)
(* paths, macro calls, arrays, parenthesised lists, indexing, calls and    *)
(* assignment.                                                             *)
(***************************************************************************)
CanBeginExpr(t) ==
    \/ t.k \in {"lit", "ident", "group"}
    \/ IsPunct(t, "::")
    \/ IsPunct(t, "!")

RECURSIVE PathEnd(_, _)
PathEnd(s, i) ==
    IF i + 1 <= Len(s) /\ IsPunct(s[i], "::") /\ s[i + 1].k = "ident"
    THEN PathEnd(s, i + 2)
    ELSE i

RECURSIVE ParseExpr(_, _), ExprList(_, _), ParsePostfix(_, _), ParsePrimary(_, _)
ParsePrimary(s, i) ==
    IF i > Len(s) THEN 0
    ELSE IF s[i].k = "lit" THEN i + 1
    ELSE IF IsPunct(s[i], "!")
         THEN With(ParsePrimary(s, i + 1), LAMBDA p : ParsePostfix(s, p))
    ELSE IF IsPunct(s[i], "::")
         THEN IF i + 1 <= Len(s) /\ s[i + 1].k = "ident" THEN ParsePrimary(s, i + 1) ELSE 0
    ELSE IF s[i].k = "ident"
         THEN With(PathEnd(s, i + 1), LAMBDA j :
                  IF j <= Len(s) /\ IsPunct(s[j], "!")
                  THEN IF j + 1 <= Len(s) /\ s[j + 1].k = "group" THEN j + 2 ELSE 0
                  ELSE j)
    ELSE IF s[i].k = "group"
         THEN IF ExprList(s[i].b, 1) THEN i + 1 ELSE 0
    ELSE 0

\* A comma-separated list of expressions from position i to the end of s;
\* a trailing comma is allowed.
ExprList(s, i) ==
    IF i > Len(s) THEN TRUE
    ELSE With(ParseExpr(s, i), LAMBDA j :
             IF j = 0 THEN FALSE
             ELSE IF j > Len(s) THEN TRUE
             ELSE IsPunct(s[j], ",") /\ ExprList(s, j + 1))

\* Indexing e[e] and calls e(e, ..) after the primary expression that ends
\* before position j.
ParsePostfix(s, j) ==
    IF j = 0 \/ j > Len(s) \/ s[j].k # "group" THEN j
    ELSE IF s[j].s = "["
         THEN IF s[j].b # <<>> /\ ParseExpr(s[j].b, 1) = Len(s[j].b) + 1
              THEN ParsePostfix(s, j + 1) ELSE 0
         ELSE IF ExprList(s[j].b, 1) THEN ParsePostfix(s, j + 1) ELSE 0

ParseExpr(s, i) ==
    With(ParsePrimary(s, i), LAMBDA p :
    With(ParsePostfix(s, p), LAMBDA j :
        IF j = 0 THEN 0
        ELSE IF j <= Len(s) /\ IsPunct(s[j], "=") THEN ParseExpr(s, j + 1)
        ELSE j))

(***************************************************************************)
(* The matcher [$name:expr, $version:expr $(,)? ] on the token trees b of  *)
(* a bracket group.  r is "match", "nomatch" (the next arm is tried) or    *)
(* "fatal" (the expression parser failed).                                 *)
(***************************************************************************)
NoMatch == [r |-> "nomatch", name |-> <<>>, version |-> <<>>, rest |-> <<>>]

Fatal == [r |-> "fatal", name |-> <<>>, version |-> <<>>, rest |-> <<>>]

MatchVersion(b, i) ==
    IF i + 1 > Len(b) \/ ~CanBeginExpr(b[i + 1]) THEN NoMatch
    ELSE With(ParseExpr(b, i + 1), LAMBDA j :
             IF j = 0 THEN Fatal
             ELSE IF j = Len(b) + 1 \/ (j = Len(b) /\ IsPunct(b[j], ","))
                  THEN [r |-> "match",
                        name |-> SubSeq(b, 1, i - 1),
                        version |-> SubSeq(b, i + 1, j - 1),
                        rest |-> <<>>]
                  ELSE NoMatch)

MatchIdentity(b) ==
    IF b = <<>> \/ ~CanBeginExpr(b[1]) THEN NoMatch
    ELSE With(ParseExpr(b, 1), LAMBDA i :
             IF i = 0 THEN Fatal
             ELSE IF i > Len(b) \/ ~IsPunct(b[i], ",") THEN NoMatch
             ELSE MatchVersion(b, i))

\* The prefix @inner [ ... ] shared by the first two arms.
HasInnerHead(ts) ==
    /\ Len(ts) >= 3
    /\ IsPunct(ts[1], "@")
    /\ ts[2] = Id("inner")
    /\ IsBracket(ts[3])

(***************************************************************************)
(* The arms of package_import!, tried in the order they are written.       *)
(* The matcher reads an invocation left to right, so the expressions       *)
(* inside @inner [ ... ] are parsed before the tokens after the group are  *)
(* looked at.                                                              *)
(***************************************************************************)
\* (@inner [$name:expr, $version:expr $(,)? ])
InnerArm(ts) ==
    IF ~HasInnerHead(ts) THEN NoMatch
    ELSE With(MatchIdentity(ts[3].b), LAMBDA m :
             IF m.r = "match" /\ Len(ts) # 3 THEN NoMatch ELSE m)

\* (@inner [$name:expr, $version:expr $(,)? ], [ $( $rest:tt )* ] )
InnerExtraArm(ts) ==
    IF ~HasInnerHead(ts) THEN NoMatch
    ELSE With(MatchIdentity(ts[3].b), LAMBDA m :
             IF m.r # "match" THEN m
             ELSE IF Len(ts) = 5 /\ IsPunct(ts[4], ",") /\ IsBracket(ts[5])
                  THEN [m EXCEPT !.rest = ts[5].b]
                  ELSE NoMatch)

SelectArm(ts) ==
    With(InnerArm(ts).r, LAMBDA first :
        IF first = "fatal" THEN "abort"
        ELSE IF first = "match" THEN "inner"
        ELSE With(InnerExtraArm(ts).r, LAMBDA second :
                 IF second = "fatal" THEN "abort"
                 ELSE IF second = "match" THEN "inner_extra"
                 ELSE IF ts = <<>> THEN "empty"
                 ELSE "dispatch"))

(***************************************************************************)
(* The right-hand sides.  An argument of concat! is an expression (its     *)
(* tokens) or a stringify! call (the tokens it is given).                  *)
(***************************************************************************)
Expr(toks) == [e |-> "expr", toks |-> toks]

Str(text) == Expr(<<Lit(text)>>)

StringifyCall(toks) == [e |-> "stringify", toks |-> toks]

\* $crate::core::env!("VAR")
EnvCall(var) ==
    <<Id("$crate"), P("::"), Id("core"), P("::"), Id("env"), P("!"), Par(<<Lit(var)>>)>>

\* $( $tt )* : the matched token trees, transcribed in the order matched.
RECURSIVE DedupFrom(_, _)
DedupFrom(tts, i) ==
    IF i > Len(tts) THEN <<>>
    ELSE (IF \E j \in 1..(i - 1) : tts[j] = tts[i] THEN <<>> ELSE <<tts[i]>>)
         \o DedupFrom(tts, i + 1)

TranscribeDedup(tts) == DedupFrom(tts, 1)

Transcribe(tts) == tts

InnerTemplateBraced(name, version) ==
    <<Expr(name), Str(" = { \""), Expr(version), Str("\" }")>>

InnerTemplate(name, version) ==
    <<Expr(name), Str(" = \""), Expr(version), Str("\"")>>

InnerExtraTemplateNoVersion(name, version, rest) ==
    IF Len(rest) >= 1 /\ rest[1] = Id("path")
    THEN <<Expr(name), Str(" = { "), StringifyCall(Transcribe(rest)), Str(" }")>>
    ELSE <<Expr(name), Str(" = { version = \""), Expr(version), Str("\", "),
           StringifyCall(Transcribe(rest)), Str(" }")>>

InnerExtraTemplateExtraFirst(name, version, rest) ==
    <<Expr(name), Str(" = { "), StringifyCall(Transcribe(rest)),
      Str(", version = \""), Expr(version), Str("\" }")>>

InnerExtraTemplate(name, version, rest) ==
    <<Expr(name), Str(" = { version = \""), Expr(version), Str("\", "),
      StringifyCall(Transcribe(rest)), Str(" }")>>

\* The tokens a concat! argument list hands to stringify!.
StringifiedTokens(as) ==
    IF \E i \in 1..Len(as) : as[i].e = "stringify"
    THEN as[CHOOSE i \in 1..Len(as) : as[i].e = "stringify"].toks
    ELSE <<>>

EmptyTemplate ==
    <<P("@"), Id("inner"),
      Br(EnvCall("CARGO_PKG_NAME") \o <<P(",")>>
         \o EnvCall("CARGO_PKG_VERSION") \o <<P(",")>>)>>

DispatchTemplateNoMarker(tts) ==
    <<Br(EnvCall("CARGO_PKG_NAME") \o <<P(",")>>
         \o EnvCall("CARGO_PKG_VERSION") \o <<P(",")>>),
      P(","), Br(Transcribe(tts))>>

DispatchTemplate(tts) ==
    <<P("@"), Id("inner"),
      Br(EnvCall("CARGO_PKG_NAME") \o <<P(",")>>
         \o EnvCall("CARGO_PKG_VERSION") \o <<P(",")>>),
      P(","), Br(Transcribe(tts))>>

Fence == "~~~"

DepDocHeader == Fence \o "TOML\n[dependencies]\n"

DevDepDocHeaderLower == Fence \o "toml\n[dev-dependencies]\n"

DevDepDocHeaderSame == Fence \o "TOML\n[dependencies]\n"

DevDepDocHeader == Fence \o "TOML\n[dev-dependencies]\n"

DocFooter == "\n" \o Fence

(***************************************************************************)
(* concat!: every argument must be a literal once the macros in it are     *)
(* expanded.  env! gives the value cargo set for the variable.             *)
(***************************************************************************)
EnvLookupStale(var) == IF run = "second" THEN "stale" ELSE env[var]

EnvLookup(var) == env[var]

IsEnvCall(toks) ==
    /\ Len(toks) = 7
    /\ SubSeq(toks, 1, 6) = SubSeq(EnvCall(""), 1, 6)
    /\ toks[7].k = "group" /\ toks[7].s = "("
    /\ Len(toks[7].b) = 1
    /\ toks[7].b[1].k = "lit"
    /\ toks[7].b[1].s \in DOMAIN env

Failed == [ok |-> FALSE, v |-> ""]

EvalArg(a) ==
    IF a.e = "stringify" THEN [ok |-> TRUE, v |-> Stringify(a.toks)]
    ELSE IF Len(a.toks) = 1 /\ a.toks[1].k = "lit" THEN [ok |-> TRUE, v |-> a.toks[1].s]
    ELSE IF IsEnvCall(a.toks) THEN [ok |-> TRUE, v |-> EnvLookup(a.toks[7].b[1].s)]
    ELSE Failed

RECURSIVE JoinFrom(_, _)
JoinFrom(vals, i) ==
    IF i > Len(vals) THEN "" ELSE vals[i].v \o JoinFrom(vals, i + 1)

EvalConcat(as) ==
    With([i \in 1..Len(as) |-> EvalArg(as[i])], LAMBDA vals :
        IF \A i \in 1..Len(vals) : vals[i].ok
        THEN [ok |-> TRUE, v |-> JoinFrom(vals, 1)]
        ELSE Failed)

(***************************************************************************)
(* The inputs.  An argument list is a concatenation of at most MaxPhrases  *)
(* phrases; cargo's package name and version are drawn from small sets.    *)
(***************************************************************************)
MaxPhrases == 2

PkgNames == {"tokio", "dep-doc"}

PkgVersions == {"1.13.0"}

KeyValue(key, value) == <<Id(key), P("="), value>>

InnerHead(b) == <<P("@"), Id("inner"), Br(b)>>

Phrases ==
    { KeyValue("path", Lit("./local")),
      KeyValue("features", Br(<<Lit("x")>>)),
      KeyValue("git", Lit("[dependencies]")),
      KeyValue("git", Lit("[dev-dependencies]")),
      <<P(",")>>,
      <<P("=")>>,
      <<P(",")>> \o KeyValue("features", Br(<<Lit("x")>>)),
      <<P(","), Br(<<Lit("x")>>)>>,
      InnerHead(<<Lit("evil"), P(","), Lit("0.0.0")>>),
      InnerHead(<<Lit(""), P(","), Lit(""), P(",")>>),
      InnerHead(<<Lit("evil")>>),
      InnerHead(<<Id("path"), P(","), Lit("0.0.0")>>),
      InnerHead(<<Lit("evil"), P("=")>>) }

RECURSIVE PhraseSeqs(_)
PhraseSeqs(n) ==
    IF n = 0 THEN {<<>>}
    ELSE LET S == PhraseSeqs(n - 1)
         IN  S \cup {p \o t : p \in Phrases, t \in S}

ArgSpace == PhraseSeqs(MaxPhrases)

Macros == {"dep_doc", "dev_dep_doc", "package_import"}

NoPrev == [macro |-> "", pc |-> "", import |-> "", output |-> ""]

(***************************************************************************)
(* The expansion.  pc is "idle" before an invocation, "doc" when a         *)
(* dep_doc!/dev_dep_doc! invocation is to be expanded, "import" when the   *)
(* package_import! invocation `pending` is, "concat" when the concat! that *)
(* package_import! became is, "concat_doc" for the concat! of the doc      *)
(* macro, "done" with the string literal in `output`, and "error" when the *)
(* compiler rejected the invocation.  `wrap` holds the literals of the doc *)
(* macro's concat! around the package_import! call it is waiting for.      *)
(***************************************************************************)
Init ==
    /\ env \in [CARGO_PKG_NAME : PkgNames, CARGO_PKG_VERSION : PkgVersions]
    /\ macro = ""
    /\ args = <<>>
    /\ run = "first"
    /\ prev = NoPrev
    /\ pc = "idle"
    /\ pending = <<>>
    /\ wrap = <<>>
    /\ cargs = <<>>
    /\ arms = <<>>
    /\ spliced = <<>>
    /\ import = ""
    /\ output = ""

Begin(m, a) ==
    /\ macro' = m
    /\ args' = a
    /\ pc' = IF m = "package_import" THEN "import" ELSE "doc"
    /\ pending' = IF m = "package_import" THEN a ELSE <<>>
    /\ wrap' = <<>>
    /\ cargs' = <<>>
    /\ arms' = <<>>
    /\ spliced' = <<>>
    /\ import' = ""
    /\ output' = ""

\* A macro is invoked with some argument tokens.
Invoke ==
    /\ pc = "idle"
    /\ \E m \in Macros, a \in ArgSpace : Begin(m, a)
    /\ UNCHANGED <<env, run, prev>>

\* The same argument tokens are given to a macro a second time, in the same
\* crate.
Again ==
    /\ pc \in {"done", "error"}
    /\ run = "first"
    /\ run' = "second"
    /\ prev' = [macro |-> macro, pc |-> pc, import |-> import, output |-> output]
    /\ \E m \in Macros : Begin(m, args)
    /\ UNCHANGED env

DepDoc ==
    /\ pc = "doc"
    /\ macro = "dep_doc"
    /\ wrap' = <<[pre |-> DepDocHeader, post |-> DocFooter]>>
    /\ pending' = Transcribe(args)
    /\ pc' = "import"
    /\ UNCHANGED <<env, macro, args, run, prev, cargs, arms, spliced, import, output>>

DevDepDoc ==
    /\ pc = "doc"
    /\ macro = "dev_dep_doc"
    /\ wrap' = <<[pre |-> DevDepDocHeader, post |-> DocFooter]>>
    /\ pending' = Transcribe(args)
    /\ pc' = "import"
    /\ UNCHANGED <<env, macro, args, run, prev, cargs, arms, spliced, import, output>>

PackageImportInner ==
    /\ pc = "import"
    /\ SelectArm(pending) = "inner"
    /\ \E m \in {InnerArm(pending)} : cargs' = InnerTemplate(m.name, m.version)
    /\ arms' = Append(arms, "inner")
    /\ pending' = <<>>
    /\ pc' = "concat"
    /\ UNCHANGED <<env, macro, args, run, prev, wrap, spliced, import, output>>

PackageImportInnerExtra ==
    /\ pc = "import"
    /\ SelectArm(pending) = "inner_extra"
    /\ \E m \in {InnerExtraArm(pending)} :
           cargs' = InnerExtraTemplate(m.name, m.version, m.rest)
    /\ spliced' = StringifiedTokens(cargs')
    /\ arms' = Append(arms, "inner_extra")
    /\ pending' = <<>>
    /\ pc' = "concat"
    /\ UNCHANGED <<env, macro, args, run, prev, wrap, import, output>>

PackageImportEmpty ==
    /\ pc = "import"
    /\ SelectArm(pending) = "empty"
    /\ pending' = EmptyTemplate
    /\ arms' = Append(arms, "empty")
    /\ UNCHANGED <<env, macro, args, run, prev, pc, wrap, cargs, spliced, import, output>>

PackageImportDispatch ==
    /\ pc = "import"
    /\ SelectArm(pending) = "dispatch"
    /\ pending' = DispatchTemplate(pending)
    /\ arms' = Append(arms, "dispatch")
    /\ UNCHANGED <<env, macro, args, run, prev, pc, wrap, cargs, spliced, import, output>>

\* The expression parser failed inside @inner [ ... ]: a compile error.
PackageImportAbort ==
    /\ pc = "import"
    /\ SelectArm(pending) = "abort"
    /\ pc' = "error"
    /\ UNCHANGED <<env, macro, args, run, prev, pending, wrap, cargs, arms, spliced,
                   import, output>>

\* concat! of package_import!'s right-hand side.
ConcatImport ==
    /\ pc = "concat"
    /\ \E r \in {EvalConcat(cargs)} :
           IF ~r.ok
           THEN /\ pc' = "error"
                /\ UNCHANGED <<wrap, cargs, import, output>>
           ELSE /\ import' = r.v
                /\ IF wrap = <<>>
                   THEN /\ output' = r.v
                        /\ pc' = "done"
                        /\ cargs' = <<>>
                        /\ wrap' = wrap
                   ELSE /\ cargs' = <<Str(wrap[1].pre), Str(r.v), Str(wrap[1].post)>>
                        /\ wrap' = <<>>
                        /\ pc' = "concat_doc"
                        /\ output' = output
    /\ UNCHANGED <<env, macro, args, run, prev, pending, arms, spliced>>

\* concat! of dep_doc!'s or dev_dep_doc!'s right-hand side.
ConcatDoc ==
    /\ pc = "concat_doc"
    /\ \E r \in {EvalConcat(cargs)} :
           IF r.ok
           THEN output' = r.v /\ pc' = "done"
           ELSE output' = output /\ pc' = "error"
    /\ cargs' = <<>>
    /\ UNCHANGED <<env, macro, args, run, prev, pending, wrap, arms, spliced, import>>

Next ==
    \/ Invoke
    \/ Again
    \/ DepDoc
    \/ DevDepDoc
    \/ PackageImportInner
    \/ PackageImportInnerExtra
    \/ PackageImportEmpty
    \/ PackageImportDispatch
    \/ PackageImportAbort
    \/ ConcatImport
    \/ ConcatDoc

Spec == Init /\ [][Next]_vars

(***************************************************************************)
(* What the claims speak of.                                               *)
(***************************************************************************)
CargoName == env.CARGO_PKG_NAME

CargoVersion == env.CARGO_PKG_VERSION

LastArm == IF arms = <<>> THEN "" ELSE arms[Len(arms)]

\* The name and version the selected @inner arm was given: cargo's when a
\* public arm wrote the @inner invocation, the caller's string literals when
\* the argument tokens were an @inner invocation themselves.
GivenIdentity ==
    IF arms[1] \in {"empty", "dispatch"}
    THEN [n |-> CargoName, v |-> CargoVersion]
    ELSE [n |-> args[3].b[1].s, v |-> args[3].b[3].s]

\* The extra tokens the selected @inner arm was given.
GivenExtra == IF arms[1] = "dispatch" THEN args ELSE args[5].b

PathAlone == KeyValue("path", Lit("./local"))

PathAndFeatures == PathAlone \o <<P(",")>> \o KeyValue("features", Br(<<Lit("x")>>))

LeadingPath(ts) == Len(ts) >= 3 /\ SubSeq(ts, 1, 3) = PathAlone

\* C1 (as stated): when the extra tokens begin with path = "<p>", the output
\* of package_import! is <name> = { path = "<p>" } or
\* <name> = { path = "<p>", <rest> } and holds no version field.
C1_PathOmitsVersion ==
    (pc = "done" /\ LeadingPath(args)) =>
        /\ StartsWith(import, CargoName \o " = { path = \"./local\"")
        /\ ~Contains(import, "version = ")

\* C1 (amended): when the extra tokens begin with path = "<p>", the version
\* field is kept: the output is <name> = { version = "<version>", path = "<p>" }
\* for path alone and <name> = { version = "<version>", path = "<p>", <rest> }
\* when more tokens follow.
C1_PathKeepsVersion ==
    (pc = "done" /\ LeadingPath(args)) =>
        /\ StartsWith(import, CargoName \o " = { version = \"" \o CargoVersion
                              \o "\", path = \"./local\"")
        /\ args = PathAlone =>
               import = CargoName \o " = { version = \"" \o CargoVersion
                        \o "\", path = \"./local\" }"
        /\ args = PathAndFeatures =>
               import = CargoName \o " = { version = \"" \o CargoVersion
                        \o "\", path = \"./local\", features = [\"x\"] }"

C1_Witness ==
    pc = "done" /\ macro = "package_import" /\ args = PathAndFeatures

\* C2: with no extra tokens the output of package_import! is exactly the
\* name, then = ", the version and ", with no inline table and no braces.
C2_NoExtraShape ==
    (pc = "done" /\ LastArm = "inner") =>
        /\ import = GivenIdentity.n \o " = \"" \o GivenIdentity.v \o "\""
        /\ args = <<>> => import = CargoName \o " = \"" \o CargoVersion \o "\""
        /\ ~Contains(import, "{")
        /\ ~Contains(import, "}")

C2_Witness ==
    pc = "done" /\ macro = "package_import" /\ args = <<>> /\ arms = <<"empty", "inner">>

\* C3: with extra tokens that do not begin with a path key the output of
\* package_import! is exactly <name> = { version = "<version>", <extra> }.
C3_ExtraShape ==
    (pc = "done" /\ LastArm = "inner_extra"
       /\ ~(GivenExtra # <<>> /\ GivenExtra[1] = Id("path"))) =>
        /\ import = GivenIdentity.n \o " = { version = \"" \o GivenIdentity.v
                    \o "\", " \o Stringify(GivenExtra) \o " }"
        /\ (args = KeyValue("features", Br(<<Lit("x")>>)) /\ CargoName = "tokio") =>
               import = "tokio = { version = \"1.13.0\", features = [\"x\"] }"

C3_Witness ==
    /\ pc = "done" /\ macro = "package_import"
    /\ args = KeyValue("features", Br(<<Lit("x")>>))
    /\ CargoName = "tokio"

\* C4 (as stated): the output of dep_doc! contains [dependencies], that of
\* dev_dep_doc! contains [dev-dependencies], and no output contains both,
\* whatever text the extra tokens carry.
C4_NeverBothHeaders ==
    (pc = "done" /\ macro \in {"dep_doc", "dev_dep_doc"}) =>
        /\ macro = "dep_doc" => Contains(output, "[dependencies]")
        /\ macro = "dev_dep_doc" => Contains(output, "[dev-dependencies]")
        /\ ~(Contains(output, "[dependencies]") /\ Contains(output, "[dev-dependencies]"))

\* C4 (amended): the output of dep_doc! contains [dependencies], that of
\* dev_dep_doc! contains [dev-dependencies], and an output contains the other
\* header only when the import line (the text package_import! gave) does.
C4_OwnHeader ==
    pc = "done" =>
        /\ macro = "dep_doc" =>
               /\ Contains(output, "[dependencies]")
               /\ Contains(output, "[dev-dependencies]")
                      => Contains(import, "[dev-dependencies]")
        /\ macro = "dev_dep_doc" =>
               /\ Contains(output, "[dev-dependencies]")
               /\ Contains(output, "[dependencies]")
                      => Contains(import, "[dependencies]")

C4_Witness ==
    /\ pc = "done" /\ macro = "dev_dep_doc"
    /\ Contains(output, "[dependencies]")
    /\ Contains(output, "[dev-dependencies]")

\* C5: the name and the version in the snippet are the ones cargo supplies,
\* whatever the argument tokens are.
C5_IdentityFromCargo ==
    pc = "done" =>
        \/ import = CargoName \o " = \"" \o CargoVersion \o "\""
        \/ StartsWith(import, CargoName \o " = { version = \"" \o CargoVersion \o "\", ")

\* C6: dep_doc! gives the fence, the header [dependencies], the import line
\* and the closing fence; dev_dep_doc! on the same input gives the same text
\* with the header [dev-dependencies], and both hold the import line
\* package_import! gives on that input.
C6_DocShape ==
    /\ (pc = "done" /\ macro = "dep_doc") =>
           output = "~~~TOML\n[dependencies]\n" \o import \o "\n~~~"
    /\ (pc = "done" /\ macro = "dev_dep_doc") =>
           output = "~~~TOML\n[dev-dependencies]\n" \o import \o "\n~~~"
    /\ (pc \in {"done", "error"} /\ run = "second") =>
           /\ prev.pc = pc
           /\ prev.import = import

C6_Witness ==
    /\ pc = "done" /\ run = "second"
    /\ prev.macro = "dep_doc" /\ macro = "dev_dep_doc"
    /\ args = PathAndFeatures

\* C7: no input makes an expansion fail.
C7_NeverFails == pc # "error"

C9_TokensKept ==
    LastArm = "inner_extra" =>
        /\ spliced = GivenExtra
        /\ pc = "done" =>
               \E head \in {SubSeq(import, 1, Len(import) - Len(Stringify(GivenExtra)) - 2)} :
                   import = head \o Stringify(GivenExtra) \o " }"

C9_Witness ==
    /\ pc = "done" /\ macro = "package_import"
    /\ args = PathAlone \o PathAlone
    /\ spliced = args

\* C10: an expansion selects at most two arms of package_import!: a public
\* arm is followed by exactly one @inner arm (the empty arm by the arm
\* without extra tokens, the dispatch arm by the arm with them), and an
\* @inner arm is followed by none.
C10_BoundedExpansion ==
    /\ Len(arms) <= 2
    /\ Len(arms) = 2 =>
           \/ arms = <<"empty", "inner">>
           \/ arms = <<"dispatch", "inner_extra">>
    /\ (pc = "import" /\ arms # <<>>) =>
           /\ LastArm \in {"empty", "dispatch"}
           /\ SelectArm(pending) \in {"inner", "inner_extra"}
    /\ LastArm \in {"inner", "inner_extra"} => pc \in {"concat", "concat_doc", "done", "error"}
    /\ pc \in {"concat", "concat_doc", "done"} => LastArm \in {"inner", "inner_extra"}

C10_Witness ==
    /\ pc = "done" /\ macro = "dep_doc"
    /\ arms = <<"dispatch", "inner_extra">>
    /\ HasInnerHead(args)

====
